---- MODULE Spec2Model ----
(***************************************************************************)
(* lokalise-listener: the Braze strings cache (package braze), the request *)
(* path that uses it, the template parser, the Lokalise webhook, the       *)
(* helper logging.Json and the start and shutdown of the server in main.   *)
(*                                                                         *)
(* The model follows src/braze/utils.go (the revision at lines 106-401)    *)
(* together with the routing in main and the helpers of package utils.     *)
(* Request goroutines run stringsCache.Fetch step by step, one sync.Map    *)
(* operation or one read of the clock per step; one goroutine runs         *)
(* StartStringsCacheEvictionLoop.  Time is a discrete clock in seconds.    *)
(*                                                                         *)
(* Fields and variables marked "history" are not state of the program:     *)
(* they record what happened so that properties can be stated.             *)
(***************************************************************************)
EXTENDS Integers, Sequences, FiniteSets, TLC

VARIABLES
    now,        \* the wall clock, time.Now(), in seconds
    cache,      \* brazeTemplateStringsCache: key -> stored *stringsCacheValue
    tasks,      \* the request goroutines inside Fetch: locals and position
    ev,         \* the eviction goroutine: position in Evict / Sleep
    started,    \* the number of requests that have entered Fetch
    lastTouch,  \* history: key -> time of the latest Touch made for the key
    lastStore,  \* history: key -> the data given to the latest Store of the key
    due,        \* history: the keys whose entry had expired when the latest
                \* sweep began and that no Store has written since
    brazeStringStore,  \* brazeStringStore: template id -> extracted strings
    parse,      \* the goroutine inside ParseTemplateHandler: locals and position
    env,        \* the secrets read from the environment when the process starts
    hook,       \* the goroutine inside TaskCompletedHandler, and the calls it
                \* has made to Lokalise
    jsonCall,   \* a goroutine inside logging.Json: locals and position
    srv         \* main and the goroutine that runs ListenAndServeTLS

vars == <<now, cache, tasks, ev, started, lastTouch, lastStore, due,
          brazeStringStore, parse, env, hook, jsonCall, srv>>

\* The state outside package braze.
restVars == <<env, hook, jsonCall, srv>>

\* The state of the strings cache and of its goroutines.
cacheVars == <<now, cache, tasks, ev, started, lastTouch, lastStore, due>>

---------------------------------------------------------------------------
(* Constants of the program and bounds of the model *)

\* Touch: time.Now().Add(5 * time.Second)
TTL == 5

\* StartStringsCacheEvictionLoop: time.Sleep(5 * time.Second)
SleepInterval == 5

\* http.StatusOK, http.StatusInternalServerError
StatusOK == 200

StatusInternalServerError == 500

\* http.StatusForbidden, http.StatusNotFound
StatusForbidden == 403

StatusNotFound == 404

\* The clock stops advancing here.
MaxTime == 6

\* The instants at which the clock is read: at and just after every
\* multiple of TTL.  They give every order between a reading of the clock
\* and an evictionTime: before, equal and after.
Instants == {t \in 0..MaxTime : t % TTL \in {0, 1}}

\* The number of requests served in one run.
MaxFetches == 2

\* The clock of the runs with a punctual sweeper stops advancing here.
Horizon == 11

PunctualInstants == {t \in 0..Horizon : t % TTL \in {0, 1}}

\* The number of requests served in one run with a punctual sweeper.
MaxRepeats == 3

\* The number of requests served in one run that only computes keys.
MaxKeyFetches == 3

\* The request goroutines that may be inside Fetch at the same time.
Tasks == {"t1", "t2"}

---------------------------------------------------------------------------
(* Requests: method, query string and urlencoded body *)

\* Go strings are byte strings.  The model writes a byte that is not
\* UTF-8 text, such as 0xFF, as InvalidByte, and the replacement
\* character U+FFFD as RuneError.
InvalidByte == "ÿ"

RuneError == "�"

\* Parameter names, in the byte order json.Marshal sorts map keys by.
ParamNames == <<"locale", "name">>

Names == {ParamNames[i] : i \in 1..Len(ParamNames)}

\* url.Values: name -> list of values; a name with no value is absent.
NoParams == [n \in Names |-> <<>>]

Only(n, vs) == [NoParams EXCEPT ![n] = vs]

\* The route /strings/braze: Methods(http.MethodGet, http.MethodPost).
RouteMethods == {"GET", "POST"}

GetEn == [method |-> "GET", query |-> Only("locale", <<"en">>), body |-> NoParams]

GetEs == [method |-> "GET", query |-> Only("locale", <<"es">>), body |-> NoParams]

PostEn == [method |-> "POST", query |-> NoParams, body |-> Only("locale", <<"en">>)]

PostTwice ==
    [method |-> "POST", query |-> NoParams, body |-> Only("locale", <<"en", "es">>)]

\* The requests clients send: two GETs that differ in the query string, a
\* POST with one value for locale and a POST with two.
Requests == {GetEn, GetEs, PostEn, PostTwice}

\* POST bodies that differ in ways only the quoting of the key tells apart.
Post(l, n) ==
    [method |-> "POST", query |-> NoParams,
     body |-> [NoParams EXCEPT !["locale"] = l, !["name"] = n]]

KeyLocales == {<<>>, <<"en">>, <<"en\",\"name\":\"x">>}

KeyNames == {<<>>, <<"">>, <<"x">>, <<"x\\">>}

KeyRequests == {Post(l, n) : l \in KeyLocales, n \in KeyNames}

\* A POST whose body is not an urlencoded form, such as locale=%zz: the
\* field malformed marks it, and ParseForm fails on it.
BadBody == [method |-> "POST", query |-> NoParams, body |-> NoParams,
            malformed |-> TRUE]

\* POST bodies with no value, one value and two values for a name, and
\* with values that hold HTML characters or a byte that is not UTF-8.
FlatLocales == {<<>>, <<"en">>, <<"en", "es">>, <<"e" \o InvalidByte>>}

FlatNames == {<<>>, <<"x">>, <<"x", "y">>, <<"a<b">>}

FlattenRequests ==
    {Post(l, n) : l \in FlatLocales, n \in FlatNames} \cup {GetEn, BadBody}

\* http.Header: name -> list of values.  Header.Get gives the first value
\* of the list, the empty string when the header is absent.
HeaderGet(values) == IF Len(values) = 0 THEN "" ELSE values[1]

\* The secrets of the environment: API_AUTHENTICATION_SECRET and
\* LOKALISE_WEBHOOK_SECRET, both set or both left unset (os.Getenv then
\* gives the empty string).
Configured == [authenticationSecret |-> "token", lokaliseWebhookSecret |-> "secret"]

Unconfigured == [authenticationSecret |-> "", lokaliseWebhookSecret |-> ""]

Environments == {Configured, Unconfigured}

\* X-Secret-Token headers of a request: absent, right, wrong, and two
\* values of which the first counts.
Tokens == {<<>>, <<"token">>, <<"wrong">>, <<"wrong", "token">>}

\* Requests to a route behind ValidateAPIKey, with their token.
WithToken(r, h) ==
    [method |-> r.method, query |-> r.query, body |-> r.body, token |-> h]

RoutedRequests == {WithToken(r, h) : r \in {GetEn, PostEn}, h \in Tokens}

\* Webhook requests: the x-secret header and what reading and parsing
\* the body gives: a project id, or a failure.
Secrets == {<<>>, <<"secret">>, <<"wrong">>, <<"secret", "wrong">>}

Bodies == {[ok |-> TRUE, projectID |-> "p1"], [ok |-> TRUE, projectID |-> ""],
           [ok |-> FALSE, projectID |-> ""]}

HookRequests == {[secret |-> h, body |-> b] : h \in Secrets, b \in Bodies}

NoHookRequest == [secret |-> <<>>, body |-> [ok |-> FALSE, projectID |-> ""]]

NoRequest == [method |-> "", query |-> NoParams, body |-> NoParams]

\* net/http Request.ParseForm: PostForm holds the body parameters of a
\* POST, PUT or PATCH and is empty otherwise; Form holds the body
\* parameters followed by the query parameters.
ParseForm(r) ==
    LET hasBody == r.method \in {"POST", "PUT", "PATCH"}
        post == IF hasBody THEN r.body ELSE NoParams
    IN  [err |-> "malformed" \in DOMAIN r,
         PostForm |-> post,
         Form |-> [n \in Names |-> post[n] \o r.query[n]]]

\* Go map lookup: the zero value for a missing key.
Lookup(m, n) == IF n \in DOMAIN m THEN m[n] ELSE ""

---------------------------------------------------------------------------
(* The cache key *)

\* encoding/json, string encoding of one character: the quote, the
\* backslash, newline and tab get a backslash escape, the HTML characters
\* a \u escape, a byte that is not UTF-8 the escape of U+FFFD, every
\* other character stands for itself.
EscapeChar(c) ==
    CASE c = "\"" -> "\\\""
      [] c = InvalidByte -> "\\ufffd"
      [] c = "\\" -> "\\\\"
      [] c = "\n" -> "\\n"
      [] c = "\t" -> "\\t"
      [] c = "<" -> "\\u003c"
      [] c = ">" -> "\\u003e"
      [] c = "&" -> "\\u0026"
      [] OTHER -> c

RECURSIVE Escape(_)
Escape(s) ==
    IF Len(s) = 0 THEN ""
    ELSE EscapeChar(SubSeq(s, 1, 1)) \o Escape(SubSeq(s, 2, Len(s)))

\* encoding/json, decoding: the character a \u escape stands for.
Rune(hex) ==
    CASE hex = "003c" -> "<"
      [] hex = "003e" -> ">"
      [] hex = "0026" -> "&"
      [] hex = "fffd" -> RuneError
      [] OTHER -> "\\u" \o hex

RECURSIVE Unquote(_)
\* encoding/json, decoding of the characters of a string: the inverse of
\* the escapes.
Unquote(s) ==
    IF Len(s) = 0 THEN ""
    ELSE IF SubSeq(s, 1, 1) # "\\"
    THEN SubSeq(s, 1, 1) \o Unquote(SubSeq(s, 2, Len(s)))
    ELSE LET c == SubSeq(s, 2, 2)
         IN  IF c = "u"
             THEN Rune(SubSeq(s, 3, 6)) \o Unquote(SubSeq(s, 7, Len(s)))
             ELSE (CASE c = "n" -> "\n" [] c = "t" -> "\t" [] OTHER -> c)
                    \o Unquote(SubSeq(s, 3, Len(s)))

\* A JSON string written without escaping its characters.
QuoteRaw(s) == "\"" \o s \o "\""

\* encoding/json: a string between quotes, its characters escaped.
Quote(s) == "\"" \o Escape(s) \o "\""

RECURSIVE JoinMembers(_, _, _)
\* The members of a JSON object for the names ParamNames[i..], in order.
JoinMembers(data, i, first) ==
    IF i > Len(ParamNames) THEN ""
    ELSE LET n == ParamNames[i]
         IN  IF n \in DOMAIN data
             THEN (IF first THEN "" ELSE ",")
                    \o Quote(n) \o ":" \o Quote(data[n])
                    \o JoinMembers(data, i + 1, FALSE)
             ELSE JoinMembers(data, i + 1, first)

\* getKey as it would be if it ignored the mapping.
getKeyEmpty(data) == "{}"

\* stringsCache.getKey: json.Marshal of the map, keys sorted.
getKey(data) == "{" \o JoinMembers(data, 1, TRUE) \o "}"

\* FlattenPostForm: the form goes through json.Marshal and json.Unmarshal,
\* then every key must carry exactly one value.  The parameter names of
\* the model come back from the round trip as they went in.
FlattenPostForm(form) ==
    LET present == {n \in Names : form[n] # <<>>}
        formMap == [n \in present |->
                      [i \in 1..Len(form[n]) |-> Unquote(Escape(form[n][i]))]]
    IN  IF \E n \in present : Len(formMap[n]) # 1
        THEN [err |-> TRUE, map |-> <<>>]
        ELSE [err |-> FALSE, map |-> [n \in present |-> formMap[n][1]]]

FormDataOf(r) == FlattenPostForm(ParseForm(r).PostForm).map

KeyOf(r) == getKey(FormDataOf(r))

---------------------------------------------------------------------------
(* The generated payload *)

\* text/template, {{.name}} over a map: the value of the key, and
\* <no value> for a key the map does not hold.
Field(data, n) == IF n \in DOMAIN data THEN data[n] ELSE "<no value>"

\* Fetch, miss path: the template for the locale executed over the form
\* data, and the paragraph for the locale, marshalled as one JSON object.
RenderPayload(formData) ==
    IF Lookup(formData, "locale") = "en"
    THEN [header |-> "Hi " \o Field(formData, "name") \o ",",
          paragraph |-> "en"]
    ELSE [header |-> Field(formData, "name") \o ", Hola!",
          paragraph |-> "es"]

NoData == [header |-> "", paragraph |-> ""]

---------------------------------------------------------------------------
(* stringsCacheValue *)

\* born and touched are history: when the data was generated and when the
\* struct was last touched.
NilValue == [evictionTime |-> 0, data |-> NoData, born |-> 0, touched |-> 0]

\* Touch as it would be with expiry fixed at creation: a later Touch does
\* not move evictionTime.
TouchFromCreation(v, t) ==
    IF v.evictionTime = 0
    THEN [v EXCEPT !.evictionTime = t + TTL, !.touched = t]
    ELSE [v EXCEPT !.touched = t]

\* stringsCacheValue.Touch at time t.
Touch(v, t) == [v EXCEPT !.evictionTime = t + TTL, !.touched = t]

\* newStringsCacheValue at time t.
newStringsCacheValue(data, t) ==
    Touch([evictionTime |-> 0, data |-> data, born |-> t, touched |-> 0], t)

\* stringsCacheValue.GetData
GetData(v) == v.data

\* IsExpired with Before in place of After.
IsExpiredBefore(v, t) == t < v.evictionTime

\* IsExpired with one more TTL of grace.
IsExpiredGrace(v, t) == t > v.evictionTime + TTL

\* stringsCacheValue.IsExpired at time t: time.Now().After(evictionTime).
IsExpired(v, t) == t > v.evictionTime

---------------------------------------------------------------------------
(* stringsCache: the sync.Map and Get *)

\* Store as it would be with LoadOrStore: the first write stays.
StoreIfAbsent(c, key, v) ==
    [k \in DOMAIN c \cup {key} |-> IF k \in DOMAIN c THEN c[k] ELSE v]

\* sync.Map.Store
Store(c, key, v) == [k \in DOMAIN c \cup {key} |-> IF k = key THEN v ELSE c[k]]

\* sync.Map.Delete
Delete(c, key) == [k \in DOMAIN c \ {key} |-> c[k]]

\* Get as it would be if it returned the stored pointer itself.
GetShared(c, key) ==
    IF key \in DOMAIN c
    THEN [value |-> c[key], ok |-> TRUE, shared |-> TRUE]
    ELSE [value |-> NilValue, ok |-> FALSE, shared |-> FALSE]

\* Get as it would be if it reported every key as missing.
GetNotFound(c, key) == [value |-> NilValue, ok |-> FALSE, shared |-> FALSE]

\* Get as it would be if the copy were never filled in.
GetZero(c, key) == [value |-> NilValue, ok |-> key \in DOMAIN c, shared |-> FALSE]

\* Get as it would be with lazy expiration: an entry whose evictionTime
\* has passed is reported as missing.
GetLazy(c, key) ==
    IF key \in DOMAIN c /\ ~(now > c[key].evictionTime)
    THEN [value |-> c[key], ok |-> TRUE, shared |-> FALSE]
    ELSE [value |-> NilValue, ok |-> FALSE, shared |-> FALSE]

\* stringsCache.Get: a pointer to a copy of the stored struct.  shared
\* tells whether the pointer returned is the stored struct itself.
Get(c, key) ==
    IF key \in DOMAIN c
    THEN [value |-> c[key], ok |-> TRUE, shared |-> FALSE]
    ELSE [value |-> NilValue, ok |-> FALSE, shared |-> FALSE]

---------------------------------------------------------------------------
(* http.ResponseWriter *)

\* status 0: the header has not been written yet.  header is the map the
\* handler edits, sent the header that went out with the status line.
NewWriter == [status |-> 0, header |-> {}, sent |-> {}, body |-> <<>>]

WriteHeader(w, code) ==
    IF w.status # 0 THEN w
    ELSE [w EXCEPT !.status = code, !.sent = w.header]

\* loggingResponseWriter.Write: WriteHeader(StatusOK) first if no status
\* was written, then the body.
Write(w, b) ==
    LET h == WriteHeader(w, StatusOK) IN [h EXCEPT !.body = Append(@, b)]

\* writer.Header().Add
HeaderAdd(w, name, value) == [w EXCEPT !.header = @ \cup {<<name, value>>}]

\* http.Error
HttpError(w, msg, code) ==
    LET h == HeaderAdd(w, "Content-Type", "text/plain; charset=utf-8")
    IN  Write(WriteHeader(h, code), msg)

---------------------------------------------------------------------------
(* extractBrazeStrings: brazeStringRegexp over the template text *)

\* The character of s at position i, "" past either end.
Ch(s, i) == IF i >= 1 /\ i <= Len(s) THEN SubSeq(s, i, i) ELSE ""

\* The literal lit stands in s at position i.
HasAt(s, i, lit) ==
    i >= 1 /\ i + Len(lit) - 1 <= Len(s) /\ SubSeq(s, i, i + Len(lit) - 1) = lit

RECURSIVE SkipBlanks(_, _)
\* [ \t]* from position i: the position after the run of blanks.
SkipBlanks(s, i) == IF Ch(s, i) \in {" ", "\t"} THEN SkipBlanks(s, i + 1) ELSE i

\* (?:'|\")
IsQuote(c) == c \in {"'", "\""}

\* . matches every character but the newline: s[from..to] is a run of them.
Dots(s, from, to) == \A j \in from..to : Ch(s, j) # "\n"

Least(S) == CHOOSE x \in S : \A y \in S : x <= y

\* (?P<default>.+?)(?:'|\")[ \t]*}} from position ds: the positions of the
\* closing quote that let the rest match.  .+? takes the least.
DefaultEnds(s, ds) ==
    {de \in (ds + 1)..Len(s) :
        /\ Dots(s, ds, de - 1)
        /\ IsQuote(Ch(s, de))
        /\ HasAt(s, SkipBlanks(s, de + 1), "}}")}

\* [ \t]*\|[ \t]*default:[ \t]*(?:'|\") from position ke: the position
\* where the default begins, 0 if this does not match.
DefaultStart(s, ke) ==
    LET a == SkipBlanks(s, ke)
        b == SkipBlanks(s, a + 1)
        c == SkipBlanks(s, b + 8)
    IN  IF Ch(s, a) = "|" /\ HasAt(s, b, "default:") /\ IsQuote(Ch(s, c))
        THEN c + 1
        ELSE 0

\* (?P<key>.+?) from position ks: the positions after the key that let the
\* rest match.  .+? takes the least.
KeyEnds(s, ks) ==
    {ke \in (ks + 1)..Len(s) :
        /\ Dots(s, ks, ke - 1)
        /\ DefaultStart(s, ke) # 0
        /\ DefaultEnds(s, DefaultStart(s, ke)) # {}}

\* The match of brazeStringRegexp that begins at position i, the one a
\* backtracking search finds first: <<full match, key, default>>, and the
\* position after it.
MatchAt(s, i) ==
    LET ks == SkipBlanks(s, i + 2) + 8
    IN  IF HasAt(s, i, "{{") /\ HasAt(s, ks - 8, "strings.") /\ KeyEnds(s, ks) # {}
        THEN LET ke == Least(KeyEnds(s, ks))
                 ds == DefaultStart(s, ke)
                 de == Least(DefaultEnds(s, ds))
                 end == SkipBlanks(s, de + 1) + 2
             IN  [ok |-> TRUE,
                  match |-> <<SubSeq(s, i, end - 1), SubSeq(s, ks, ke - 1),
                              SubSeq(s, ds, de - 1)>>,
                  end |-> end]
        ELSE [ok |-> FALSE, match |-> <<>>, end |-> i]

RECURSIVE FindAll(_, _, _)
\* FindAllStringSubmatch(template, -1): the matches from position i on,
\* leftmost first, none overlapping another.
FindAll(s, i, acc) ==
    IF i > Len(s) THEN acc
    ELSE LET m == MatchAt(s, i)
         IN  IF m.ok THEN FindAll(s, m.end, Append(acc, m.match))
             ELSE FindAll(s, i + 1, acc)

FindAllStringSubmatch(s) == FindAll(s, 1, <<>>)

\* ReplaceAll as it would be with strings.Replace and a count of 1.
ReplaceFirst(s, old, new) ==
    IF \E i \in 1..Len(s) : HasAt(s, i, old)
    THEN LET i == Least({j \in 1..Len(s) : HasAt(s, j, old)})
         IN  SubSeq(s, 1, i - 1) \o new \o SubSeq(s, i + Len(old), Len(s))
    ELSE s

RECURSIVE ReplaceAll(_, _, _)
\* strings.ReplaceAll: the occurrences of old, left to right, none
\* overlapping another, replaced by new.  old is not empty.
ReplaceAll(s, old, new) ==
    IF Len(s) = 0 THEN ""
    ELSE IF HasAt(s, 1, old)
    THEN new \o ReplaceAll(SubSeq(s, Len(old) + 1, Len(s)), old, new)
    ELSE SubSeq(s, 1, 1) \o ReplaceAll(SubSeq(s, 2, Len(s)), old, new)

\* The default string left as the template has it.
UnescapeNone(defaultString) == defaultString

\* The two ReplaceAll calls on the default string.
Unescape(defaultString) ==
    ReplaceAll(ReplaceAll(defaultString, "[[", "{{"), "]]", "}}")

\* The assignment as it would be if a key already present were kept.
AssignIfAbsent(m, key, v) ==
    [k \in DOMAIN m \cup {key} |-> IF k \in DOMAIN m THEN m[k] ELSE v]

\* stringMap[key] = value on a Go map.
Assign(m, key, v) == [k \in DOMAIN m \cup {key} |-> IF k = key THEN v ELSE m[k]]

RECURSIVE FillStringMap(_, _, _)
\* The loop over the matches from the i-th on.
FillStringMap(matches, i, stringMap) ==
    IF i > Len(matches) THEN [err |-> FALSE, isNil |-> FALSE, map |-> stringMap]
    ELSE IF Len(matches[i]) # 3 THEN [err |-> TRUE, isNil |-> TRUE, map |-> <<>>]
    ELSE FillStringMap(matches, i + 1,
                       Assign(stringMap, matches[i][2], Unescape(matches[i][3])))

\* extractBrazeStrings as it would be if a template without strings were
\* refused.
extractBrazeStringsStrict(template) ==
    LET matches == FindAllStringSubmatch(template)
    IN  IF Len(matches) = 0 THEN [err |-> TRUE, isNil |-> TRUE, map |-> <<>>]
        ELSE FillStringMap(matches, 1, <<>>)

\* extractBrazeStrings: err is the error returned, isNil tells the nil
\* map from the empty one.
extractBrazeStrings(template) ==
    LET matches == FindAllStringSubmatch(template)
    IN  IF Len(matches) = 0 THEN [err |-> FALSE, isNil |-> FALSE, map |-> <<>>]
        ELSE FillStringMap(matches, 1, <<>>)

---------------------------------------------------------------------------
(* Template bodies and template ids *)

\* A placeholder as a template author writes it.
Placeholder(key, default) ==
    "{{ strings." \o key \o " | default:\"" \o default \o "\" }}"

\* A template that holds one placeholder, with the key and the default it
\* was written with.
One(before, key, default, after) ==
    [text |-> before \o Placeholder(key, default) \o after,
     key |-> key, default |-> default]

OnePlaceholder ==
    {One("", "title", "Welcome", ""),
     One("Hi ", "greeting", "Hello name", "!"),
     One("<p>", "cta.label", "it's here", "</p>"),
     One("", "empty", "", ""),
     One("", "lines", "two\nlines", "")}

\* A placeholder followed by a context comment.
ContextText == "greeting on homepage"

WithContext ==
    "Hi {{ strings.greeting | default:\"Hello [[name]]\" }}"
        \o "<!-- context: \"" \o ContextText \o "\" -->"

\* Escaped brackets in the default and in the key; one key three times.
WithBrackets == "{{strings.a[[0]]|default:'[[a]]]][[[b'}}"

Repeated ==
    Placeholder("k", "first") \o " and " \o Placeholder("other", "o")
        \o " and " \o Placeholder("k", "[[last]]")

NoPlaceholder == "plain text, no placeholders"

Templates ==
    {o.text : o \in OnePlaceholder}
        \cup {WithContext, WithBrackets, Repeated, NoPlaceholder}

\* template_id of the request; the empty one is refused.
TemplateIDs == {"", "t1", "t2"}

---------------------------------------------------------------------------
(* logging.Json: the values it is given and their encoding *)

\* Go values, by kind.  A map is a function of its keys, written as the
\* strings encoding/json turns them into; a struct is the list of its
\* fields under their JSON names; a float is the text strconv formats.
Null == [kind |-> "nil"]

IntValue(n) == [kind |-> "int", n |-> n]

BoolValue(b) == [kind |-> "bool", b |-> b]

StringValue(str) == [kind |-> "string", s |-> str]

FloatValue(text) == [kind |-> "float", text |-> text]

SliceValue(elems) == [kind |-> "slice", elems |-> elems]

MapValue(type, entries) == [kind |-> "map", type |-> type, entries |-> entries]

StructValue(fields) == [kind |-> "struct", fields |-> fields]

\* A value of a type encoding/json has no encoding for: a function, a
\* channel, a complex number.
Unsupported(type) == [kind |-> "unsupported", type |-> type]

\* A map that holds itself.
CyclicMap == [kind |-> "cycle", type |-> "map[string]interface {}"]

\* Map keys in the order encoding/json writes them: sorted as strings.
KeyOrder == <<"0", "3", "a", "b", "c", "d">>

\* encoding/json with SetEscapeHTML(false): the escapes of a string
\* without those of the HTML characters.
EscapeCharPlain(c) == IF c \in {"<", ">", "&"} THEN c ELSE EscapeChar(c)

RECURSIVE EscapePlain(_)
EscapePlain(str) ==
    IF Len(str) = 0 THEN ""
    ELSE EscapeCharPlain(SubSeq(str, 1, 1)) \o EscapePlain(SubSeq(str, 2, Len(str)))

RECURSIVE Encode(_)
RECURSIVE EncodeElems(_, _)
RECURSIVE EncodeEntries(_, _, _)
RECURSIVE EncodeFields(_, _)

\* The elements of a slice from the i-th on, separated by commas; the
\* first error ends the encoding.
EncodeElems(elems, i) ==
    IF i > Len(elems) THEN [err |-> "", text |-> ""]
    ELSE LET e == Encode(elems[i])
             rest == EncodeElems(elems, i + 1)
         IN  IF e.err # "" THEN e
             ELSE IF rest.err # "" THEN rest
             ELSE [err |-> "", text |->
                     (IF i > 1 THEN "," ELSE "") \o e.text \o rest.text]

\* The entries of a map for the keys KeyOrder[i..], in order.
EncodeEntries(entries, i, first) ==
    IF i > Len(KeyOrder) THEN [err |-> "", text |-> ""]
    ELSE IF KeyOrder[i] \notin DOMAIN entries
    THEN EncodeEntries(entries, i + 1, first)
    ELSE LET e == Encode(entries[KeyOrder[i]])
             rest == EncodeEntries(entries, i + 1, FALSE)
         IN  IF e.err # "" THEN e
             ELSE IF rest.err # "" THEN rest
             ELSE [err |-> "", text |->
                     (IF first THEN "" ELSE ",")
                       \o "\"" \o EscapePlain(KeyOrder[i]) \o "\":" \o e.text
                       \o rest.text]

\* The fields of a struct from the i-th on, in the order of declaration.
EncodeFields(fields, i) ==
    IF i > Len(fields) THEN [err |-> "", text |-> ""]
    ELSE LET e == Encode(fields[i].value)
             rest == EncodeFields(fields, i + 1)
         IN  IF e.err # "" THEN e
             ELSE IF rest.err # "" THEN rest
             ELSE [err |-> "", text |->
                     (IF i > 1 THEN "," ELSE "")
                       \o "\"" \o fields[i].name \o "\":" \o e.text \o rest.text]

\* encoding/json, the encoding of a value that holds no cycle: the text,
\* or the error of the first value it cannot encode.
Encode(v) ==
    CASE v.kind = "nil" -> [err |-> "", text |-> "null"]
      [] v.kind = "int" -> [err |-> "", text |-> ToString(v.n)]
      [] v.kind = "bool" ->
           [err |-> "", text |-> IF v.b THEN "true" ELSE "false"]
      [] v.kind = "string" ->
           [err |-> "", text |-> "\"" \o EscapePlain(v.s) \o "\""]
      [] v.kind = "float" ->
           IF v.text \in {"+Inf", "-Inf", "NaN"}
           THEN [err |-> "json: unsupported value: " \o v.text, text |-> ""]
           ELSE [err |-> "", text |-> v.text]
      [] v.kind = "slice" ->
           LET e == EncodeElems(v.elems, 1)
           IN  IF e.err # "" THEN e ELSE [err |-> "", text |-> "[" \o e.text \o "]"]
      [] v.kind = "map" ->
           IF v.type = "map[bool]int"
           THEN [err |-> "json: unsupported type: " \o v.type, text |-> ""]
           ELSE LET e == EncodeEntries(v.entries, 1, TRUE)
                IN  IF e.err # "" THEN e
                    ELSE [err |-> "", text |-> "{" \o e.text \o "}"]
      [] v.kind = "struct" ->
           LET e == EncodeFields(v.fields, 1)
           IN  IF e.err # "" THEN e ELSE [err |-> "", text |-> "{" \o e.text \o "}"]
      [] v.kind = "unsupported" ->
           [err |-> "json: unsupported type: " \o v.type, text |-> ""]

\* strings.TrimSuffix as it would be if it removed nothing.
TrimNothing(str, suffix) == str

\* strings.TrimSuffix
TrimSuffix(str, suffix) ==
    IF Len(str) >= Len(suffix)
       /\ SubSeq(str, Len(str) - Len(suffix) + 1, Len(str)) = suffix
    THEN SubSeq(str, 1, Len(str) - Len(suffix))
    ELSE str

\* The values of TestJson, with the results it expects.
TestJson ==
    <<[value |-> Null, expectedResult |-> "null"],
      [value |-> IntValue(12), expectedResult |-> "12"],
      [value |-> BoolValue(TRUE), expectedResult |-> "true"],
      [value |-> StringValue("test"), expectedResult |-> "\"test\""],
      [value |-> SliceValue(<<IntValue(3), IntValue(5), IntValue(8)>>),
       expectedResult |-> "[3,5,8]"],
      [value |-> StructValue(<<[name |-> "ExampleInt", value |-> IntValue(0)],
                               [name |-> "ExampleStr", value |-> StringValue("")],
                               [name |-> "renamedBool", value |-> BoolValue(FALSE)]>>),
       expectedResult |-> "{\"ExampleInt\":0,\"ExampleStr\":\"\",\"renamedBool\":false}"],
      [value |-> MapValue("map[int]string",
                          [k \in {"0", "3"} |->
                             IF k = "0" THEN StringValue("a") ELSE StringValue("c")]),
       expectedResult |-> "{\"0\":\"a\",\"3\":\"c\"}"],
      [value |-> MapValue("map[string]interface {}",
                          [k \in {"a", "b", "c"} |->
                             CASE k = "a" -> StringValue("one")
                               [] k = "b" -> IntValue(2)
                               [] k = "c" -> MapValue("map[string]interface {}",
                                                      [d \in {"d"} |-> Null])]),
       expectedResult |-> "{\"a\":\"one\",\"b\":2,\"c\":{\"d\":null}}"],
      [value |-> FloatValue("+Inf"),
       expectedResult |-> "<error: json: unsupported value: +Inf>"],
      [value |-> FloatValue("NaN"),
       expectedResult |-> "<error: json: unsupported value: NaN>"],
      [value |-> Unsupported("func(string) int"),
       expectedResult |-> "<error: json: unsupported type: func(string) int>"],
      [value |-> Unsupported("chan int"),
       expectedResult |-> "<error: json: unsupported type: chan int>"],
      [value |-> Unsupported("complex128"),
       expectedResult |-> "<error: json: unsupported type: complex128>"],
      [value |-> MapValue("map[bool]int", <<>>),
       expectedResult |-> "<error: json: unsupported type: map[bool]int>"]>>

\* Further values: strings with characters that are escaped or, being
\* HTML, are not; a float; values that hold a value without encoding; the
\* empty slice; the map that holds itself.
MoreValues ==
    {StringValue("a<b"), StringValue("two\nlines"), StringValue("say \"hi\""),
     StringValue("end\n"), IntValue(-1), FloatValue("1.5"), FloatValue("-Inf"),
     SliceValue(<<>>),
     SliceValue(<<FloatValue("1.5"), FloatValue("NaN")>>),
     MapValue("map[string]interface {}",
              [k \in {"a", "b"} |->
                 IF k = "a" THEN StringValue("x") ELSE Unsupported("chan int")]),
     CyclicMap}

JsonValues == {TestJson[i].value : i \in 1..Len(TestJson)} \cup MoreValues

---------------------------------------------------------------------------
(* History *)

\* h with x recorded for key; h with nothing recorded for key.
Note(h, key, x) == [k \in DOMAIN h \cup {key} |-> IF k = key THEN x ELSE h[k]]

Forget(h, key) == [k \in DOMAIN h \ {key} |-> h[k]]

---------------------------------------------------------------------------
(* Initial state *)

IdleTask ==
    [pc |-> "idle", req |-> NoRequest, formData |-> <<>>, key |-> "",
     value |-> NilValue, ok |-> FALSE,
     shared |-> FALSE, path |-> "", resp |-> NewWriter]

\* startedAt is history: when the sweep in progress began.
IdleSweeper ==
    [pc |-> "sleep", wakeAt |-> 0, must |-> {}, seen |-> {}, key |-> "",
     value |-> NilValue, startedAt |-> 0]

\* The goroutine of ParseTemplateHandler, between requests.
IdleParse ==
    [pc |-> "idle", templateID |-> "", templateBody |-> "", matches |-> <<>>,
     extractedStrings |-> <<>>, err |-> FALSE, resp |-> NewWriter]

\* The goroutine of TaskCompletedHandler, between requests.  bodyRead and
\* calls are history: whether the handler read the body of the request,
\* and the project ids createStringsPullRequest was called with.
IdleHook ==
    [pc |-> "idle", req |-> NoHookRequest, bodyRead |-> FALSE, projectID |-> "",
     resp |-> NewWriter, served |-> 0, calls |-> <<>>]

\* No call of logging.Json in progress.  calls is the number of calls
\* made, records the number of records the error logger has written.
IdleJson == [pc |-> "idle", j |-> Null, err |-> "", buf |-> "", result |-> "",
             calls |-> 0, records |-> 0]

\* main before it starts the server.  records is the number of records
\* the fatal logger has written.
IdleServer ==
    [main |-> "start", serve |-> "none", err |-> "", deadline |-> 0,
     records |-> 0]

\* The process has started: package variables hold their initial values,
\* the secrets are those of the environment e.
InitWith(e) ==
    /\ now = 0
    /\ cache = <<>>
    /\ tasks = [t \in Tasks |-> IdleTask]
    /\ ev = IdleSweeper
    /\ started = 0
    /\ lastTouch = <<>>
    /\ lastStore = <<>>
    /\ due = {}
    /\ brazeStringStore = <<>>
    /\ parse = IdleParse
    /\ env = e
    /\ hook = IdleHook
    /\ jsonCall = IdleJson
    /\ srv = IdleServer

Init == InitWith(Configured)

---------------------------------------------------------------------------
(* The clock *)

Tick ==
    /\ \E t \in Instants :
         /\ t > now
         /\ \A u \in Instants : u > now => t <= u
         /\ now' = t
    /\ UNCHANGED <<cache, tasks, ev, started, lastTouch, lastStore, due, brazeStringStore, parse, restVars>>

---------------------------------------------------------------------------
(* stringsCache.Fetch, one step at a time *)

\* The local key of Fetch: key, err := cache.getKey(formData)
Key(t) == tasks[t].key

\* Fetch as it would be if, after the error response for a form it cannot
\* use, it went on without returning.
FetchBeginNoReturn(t, r) ==
    /\ tasks[t].pc = "idle"
    /\ started' = started + 1
    /\ LET form == ParseForm(r)
           flat == FlattenPostForm(form.PostForm)
           key == getKey(flat.map)
           g == Get(cache, key)
       IN  tasks' = [tasks EXCEPT ![t] =
             IF form.err \/ flat.err
             THEN [IdleTask EXCEPT !.pc = "generate", !.req = r,
                     !.formData = flat.map, !.key = key,
                     !.resp = HttpError(NewWriter, "failed to flatten form data",
                                        StatusInternalServerError)]
             ELSE IF g.ok
             THEN [IdleTask EXCEPT !.pc = "touch", !.req = r,
                     !.formData = flat.map, !.key = key,
                     !.value = g.value, !.ok = TRUE, !.shared = g.shared]
             ELSE [IdleTask EXCEPT !.pc = "generate", !.req = r,
                     !.formData = flat.map, !.key = key]]
    /\ UNCHANGED <<now, cache, ev, lastTouch, lastStore, due, brazeStringStore, parse, restVars>>

\* A request enters Fetch on a goroutine that serves none.  ParseForm,
\* FlattenPostForm and getKey touch nothing shared, so they are one step
\* with the first access to the map: value, ok := cache.Get(key).
FetchBegin(t, r) ==
    /\ tasks[t].pc = "idle"
    /\ started' = started + 1
    /\ LET form == ParseForm(r)
           flat == FlattenPostForm(form.PostForm)
           key == getKey(flat.map)
           g == Get(cache, key)
       IN  tasks' = [tasks EXCEPT ![t] =
             IF form.err
             THEN [IdleTask EXCEPT !.pc = "done", !.req = r, !.path = "error",
                     !.resp = HttpError(NewWriter, "failed to parse form",
                                        StatusInternalServerError)]
             ELSE IF flat.err
             THEN [IdleTask EXCEPT !.pc = "done", !.req = r, !.path = "error",
                     !.resp = HttpError(NewWriter, "failed to flatten form data",
                                        StatusInternalServerError)]
             ELSE IF g.ok
             THEN [IdleTask EXCEPT !.pc = "touch", !.req = r,
                     !.formData = flat.map, !.key = key,
                     !.value = g.value, !.ok = TRUE, !.shared = g.shared]
             ELSE [IdleTask EXCEPT !.pc = "generate", !.req = r,
                     !.formData = flat.map, !.key = key]]
    /\ UNCHANGED <<now, cache, ev, lastTouch, lastStore, due, brazeStringStore, parse, restVars>>

\* ValidateAPIKey as it would be if it let every request through.
ValidateAPIKeyOpen(t, r) == FetchBegin(t, r)

\* The handler ValidateAPIKey returns, around GetStringsHandler: a
\* request whose X-Secret-Token is not the secret gets http.NotFound,
\* any other goes on to Fetch.
ValidateAPIKey(t, r) ==
    IF HeaderGet(r.token) # env.authenticationSecret
    THEN /\ tasks[t].pc = "idle"
         /\ started' = started + 1
         /\ tasks' = [tasks EXCEPT ![t] =
               [IdleTask EXCEPT !.pc = "done", !.req = r, !.path = "notfound",
                  !.resp = HttpError(NewWriter, "404 page not found", StatusNotFound)]]
         /\ UNCHANGED <<now, cache, ev, lastTouch, lastStore, due, brazeStringStore, parse, restVars>>
    ELSE FetchBegin(t, r)

\* value.Touch() on the pointer Get returned.
FetchTouch(t) ==
    /\ tasks[t].pc = "touch"
    /\ LET v == Touch(tasks[t].value, now)
           k == Key(t)
       IN  /\ tasks' = [tasks EXCEPT ![t] = [@ EXCEPT !.pc = "hitstore", !.value = v]]
           /\ cache' = IF tasks[t].shared /\ k \in DOMAIN cache
                          /\ cache[k] = tasks[t].value
                       THEN [cache EXCEPT ![k] = v]
                       ELSE cache
           /\ lastTouch' = Note(lastTouch, k, now)
    /\ UNCHANGED <<now, ev, started, lastStore, due, brazeStringStore, parse, restVars>>

\* cache.Store(key, value); writer.Write(value.GetData());
\* writer.Header().Add("X-From-Cache", "1")
FetchHitStore(t) ==
    /\ tasks[t].pc = "hitstore"
    /\ cache' = Store(cache, Key(t), tasks[t].value)
    /\ lastStore' = Note(lastStore, Key(t), tasks[t].value.data)
    /\ due' = due \ {Key(t)}
    /\ tasks' = [tasks EXCEPT ![t] = [IdleTask EXCEPT !.pc = "done", !.path = "hit",
         !.resp = HeaderAdd(Write(NewWriter, GetData(tasks[t].value)),
                            "X-From-Cache", "1")]]
    /\ UNCHANGED <<now, ev, started, lastTouch, brazeStringStore, parse, restVars>>

\* The miss path up to newStringsCacheValue(dataBytes).
FetchGenerate(t) ==
    /\ tasks[t].pc = "generate"
    /\ LET dataBytes == RenderPayload(tasks[t].formData)
       IN  tasks' = [tasks EXCEPT ![t] = [@ EXCEPT !.pc = "missstore",
             !.value = newStringsCacheValue(dataBytes, now)]]
    /\ lastTouch' = Note(lastTouch, Key(t), now)
    /\ UNCHANGED <<now, cache, ev, started, lastStore, due, brazeStringStore, parse, restVars>>

\* cache.Store(key, newStringsCacheValue(dataBytes))
FetchMissStore(t) ==
    /\ tasks[t].pc = "missstore"
    /\ cache' = Store(cache, Key(t), tasks[t].value)
    /\ lastStore' = Note(lastStore, Key(t), tasks[t].value.data)
    /\ due' = due \ {Key(t)}
    /\ tasks' = [tasks EXCEPT ![t] = [@ EXCEPT !.pc = "missget"]]
    /\ UNCHANGED <<now, ev, started, lastTouch, brazeStringStore, parse, restVars>>

\* value, ok = cache.Get(key); writer.Write(dataBytes)
FetchMissGet(t) ==
    /\ tasks[t].pc = "missget"
    /\ LET g == Get(cache, Key(t))
           dataBytes == RenderPayload(tasks[t].formData)
       IN  tasks' = [tasks EXCEPT ![t] = [IdleTask EXCEPT !.pc = "done", !.path = "miss",
             !.ok = g.ok, !.resp = Write(NewWriter, dataBytes)]]
    /\ UNCHANGED <<now, cache, ev, started, lastTouch, lastStore, due, brazeStringStore, parse, restVars>>

\* Fetch returns and the response is complete; the goroutine ends.
FetchReturn(t) ==
    /\ tasks[t].pc = "done"
    /\ tasks' = [tasks EXCEPT ![t] = IdleTask]
    /\ UNCHANGED <<now, cache, ev, started, lastTouch, lastStore, due, brazeStringStore, parse, restVars>>

---------------------------------------------------------------------------
(* StartStringsCacheEvictionLoop and stringsCache.Evict *)

\* The loop calls Evict: Range starts over the keys present now.
EvictStart ==
    /\ ev.pc = "sleep"
    /\ now >= ev.wakeAt
    /\ ev' = [ev EXCEPT !.pc = "range", !.must = DOMAIN cache, !.seen = {},
                !.startedAt = now]
    /\ due' = {k \in DOMAIN cache : now > cache[k].evictionTime}
    /\ UNCHANGED <<now, cache, tasks, started, lastTouch, lastStore, brazeStringStore, parse, restVars>>

\* Range hands the callback a key not visited yet and the value it loads.
\* Keys stored after Range began may or may not be visited.
EvictLoad(k) ==
    /\ ev.pc = "range"
    /\ k \in DOMAIN cache \ ev.seen
    /\ ev' = [ev EXCEPT !.pc = "loaded", !.key = k, !.value = cache[k],
                !.seen = @ \cup {k}]
    /\ UNCHANGED <<now, cache, tasks, started, lastTouch, lastStore, due, brazeStringStore, parse, restVars>>

\* value.(*stringsCacheValue).IsExpired()
EvictCheck ==
    /\ ev.pc = "loaded"
    /\ ev' = IF IsExpired(ev.value, now)
             THEN [ev EXCEPT !.pc = "expired"]
             ELSE [ev EXCEPT !.pc = "range"]
    /\ UNCHANGED <<now, cache, tasks, started, lastTouch, lastStore, due, brazeStringStore, parse, restVars>>

\* cache.Delete(key)
EvictDelete ==
    /\ ev.pc = "expired"
    /\ cache' = Delete(cache, ev.key)
    /\ lastStore' = Forget(lastStore, ev.key)
    /\ ev' = [ev EXCEPT !.pc = "range"]
    /\ UNCHANGED <<now, tasks, started, lastTouch, due, brazeStringStore, parse, restVars>>

\* The loop as it would be if it ended after one sweep.
EvictReturnOnce ==
    /\ ev.pc = "range"
    /\ ev.must \subseteq ev.seen
    /\ ev' = [ev EXCEPT !.pc = "exited", !.must = {}, !.seen = {}, !.key = "",
                !.value = NilValue, !.startedAt = 0]
    /\ UNCHANGED <<now, cache, tasks, started, lastTouch, lastStore, due, brazeStringStore, parse, restVars>>

\* Range has visited every key that was present throughout; Evict
\* returns and the loop sleeps.
EvictReturn ==
    /\ ev.pc = "range"
    /\ ev.must \subseteq ev.seen
    /\ ev' = [ev EXCEPT !.pc = "sleep", !.wakeAt = now + SleepInterval,
                !.must = {}, !.seen = {}, !.key = "", !.value = NilValue,
                !.startedAt = 0]
    /\ UNCHANGED <<now, cache, tasks, started, lastTouch, lastStore, due, brazeStringStore, parse, restVars>>

---------------------------------------------------------------------------
(* ParseTemplateHandler and getBrazeTemplateInfo, one step at a time *)

\* The handler reads template_id and getBrazeTemplateInfo asks Braze for
\* the template: the answer is a body, or the call fails.
ParseBegin(id, up) ==
    /\ parse.pc = "idle"
    /\ parse' =
         IF id = ""
         THEN [IdleParse EXCEPT !.pc = "done"]
         ELSE IF ~up.ok
         THEN [IdleParse EXCEPT !.pc = "done", !.templateID = id, !.err = TRUE,
                 !.resp = HttpError(NewWriter, "unable to parse template",
                                    StatusInternalServerError)]
         ELSE [IdleParse EXCEPT !.pc = "extract", !.templateID = id,
                 !.templateBody = up.body]
    /\ UNCHANGED <<cacheVars, brazeStringStore, restVars>>

\* extractedStrings, err := extractBrazeStrings(templateBody)
ParseExtract ==
    /\ parse.pc = "extract"
    /\ LET r == extractBrazeStrings(parse.templateBody)
       IN  parse' =
             IF r.err
             THEN [IdleParse EXCEPT !.pc = "done", !.templateID = parse.templateID,
                     !.err = TRUE,
                     !.resp = HttpError(NewWriter, "unable to parse template",
                                        StatusInternalServerError)]
             ELSE [parse EXCEPT !.pc = "store",
                     !.matches = FindAllStringSubmatch(parse.templateBody),
                     !.extractedStrings = r.map]
    /\ UNCHANGED <<cacheVars, brazeStringStore, restVars>>

\* brazeStringStore.Store(templateID, extractedStrings)
ParseStore ==
    /\ parse.pc = "store"
    /\ brazeStringStore' =
         Store(brazeStringStore, parse.templateID, parse.extractedStrings)
    /\ parse' = [parse EXCEPT !.pc = "respond"]
    /\ UNCHANGED <<cacheVars, restVars>>

\* getBrazeTemplateInfo returns nil, nil; the handler writes the JSON
\* object that holds template_id alone, then adds Content-Type.
ParseRespond ==
    /\ parse.pc = "respond"
    /\ parse' = [IdleParse EXCEPT !.pc = "done", !.templateID = parse.templateID,
         !.resp = HeaderAdd(
             Write(NewWriter, "{\"template_id\":" \o Quote(parse.templateID) \o "}"),
             "Content-Type", "application/json")]
    /\ UNCHANGED <<cacheVars, brazeStringStore, restVars>>

\* The handler returns.
ParseReturn ==
    /\ parse.pc = "done"
    /\ parse' = IdleParse
    /\ UNCHANGED <<cacheVars, brazeStringStore, restVars>>

---------------------------------------------------------------------------
(* TaskCompletedHandler *)

\* The number of webhook requests served in one run.
MaxHooks == 2

\* The check as it would be if a request without the header passed.
validateOrAbsent(request, secret) ==
    request.secret = <<>> \/ HeaderGet(request.secret) = secret

\* validateLokaliseWebhookSecret
validateLokaliseWebhookSecret(request, secret) == HeaderGet(request.secret) = secret

\* A webhook request enters the handler, which checks the secret first:
\* http.Error with StatusForbidden when the check fails.
HookBegin(r) ==
    /\ hook.pc = "idle"
    /\ hook.served < MaxHooks
    /\ hook' =
         IF validateLokaliseWebhookSecret(r, env.lokaliseWebhookSecret)
         THEN [hook EXCEPT !.pc = "read", !.req = r, !.served = @ + 1]
         ELSE [hook EXCEPT !.pc = "done", !.req = r, !.served = @ + 1,
                 !.resp = HttpError(NewWriter, "unable to validate request",
                                    StatusForbidden)]
    /\ UNCHANGED <<cacheVars, brazeStringStore, parse, env, jsonCall, srv>>

\* ioutil.ReadAll(request.Body) and json.Unmarshal: the handler returns
\* when either fails, without writing a response.
HookRead ==
    /\ hook.pc = "read"
    /\ hook' = IF hook.req.body.ok
               THEN [hook EXCEPT !.pc = "call", !.bodyRead = TRUE,
                       !.projectID = hook.req.body.projectID]
               ELSE [hook EXCEPT !.pc = "done", !.bodyRead = TRUE]
    /\ UNCHANGED <<cacheVars, brazeStringStore, parse, env, jsonCall, srv>>

\* createStringsPullRequest(jsonBody.Project.ID): the request to Lokalise.
HookCall ==
    /\ hook.pc = "call"
    /\ hook' = [hook EXCEPT !.pc = "done", !.calls = Append(@, hook.projectID)]
    /\ UNCHANGED <<cacheVars, brazeStringStore, parse, env, jsonCall, srv>>

\* The handler returns.
HookReturn ==
    /\ hook.pc = "done"
    /\ hook' = [IdleHook EXCEPT !.served = hook.served, !.calls = hook.calls]
    /\ UNCHANGED <<cacheVars, brazeStringStore, parse, env, jsonCall, srv>>

---------------------------------------------------------------------------
(* logging.Json *)

\* The number of calls of Json in one run.
MaxJsonCalls == 2

\* What encoder.Encode does with a value that holds itself depends on the
\* Go release that built the program: the encoder recurses until the stack
\* overflows, which ends the process, or it notices the cycle and returns
\* an error.
CycleOutcomes == {"stack overflow", "error"}

\* Json is called with the value v.
JsonBegin(v) ==
    /\ jsonCall.pc = "idle"
    /\ jsonCall.calls < MaxJsonCalls
    /\ jsonCall' = [jsonCall EXCEPT !.pc = "encode", !.j = v, !.calls = @ + 1,
                      !.err = "", !.buf = "", !.result = ""]
    /\ UNCHANGED <<cacheVars, brazeStringStore, parse, env, hook, srv>>

\* err := encoder.Encode(j): the encoding and a newline in buf, or an
\* error and nothing in buf.
JsonEncode ==
    /\ jsonCall.pc = "encode"
    /\ IF jsonCall.j.kind = "cycle"
       THEN \E outcome \in CycleOutcomes :
              jsonCall' =
                IF outcome = "stack overflow"
                THEN [jsonCall EXCEPT !.pc = "crashed"]
                ELSE [jsonCall EXCEPT !.pc = "failed",
                        !.err = "json: unsupported value: encountered a cycle via "
                                   \o jsonCall.j.type]
       ELSE LET e == Encode(jsonCall.j)
            IN  jsonCall' =
                  IF e.err = ""
                  THEN [jsonCall EXCEPT !.pc = "encoded", !.buf = e.text \o "\n"]
                  ELSE [jsonCall EXCEPT !.pc = "failed", !.err = e.err]
    /\ UNCHANGED <<cacheVars, brazeStringStore, parse, env, hook, srv>>

\* return strings.TrimSuffix(buf.String(), "\n")
JsonTrim ==
    /\ jsonCall.pc = "encoded"
    /\ jsonCall' = [jsonCall EXCEPT !.pc = "done",
                      !.result = TrimSuffix(jsonCall.buf, "\n")]
    /\ UNCHANGED <<cacheVars, brazeStringStore, parse, env, hook, srv>>

\* The error logger writes a record, it is not the fatal one; then
\* return fmt.Sprintf("<error: %v>", err)
JsonLogError ==
    /\ jsonCall.pc = "failed"
    /\ jsonCall' = [jsonCall EXCEPT !.pc = "done", !.records = @ + 1,
                      !.result = "<error: " \o jsonCall.err \o ">"]
    /\ UNCHANGED <<cacheVars, brazeStringStore, parse, env, hook, srv>>

\* The caller has the result.
JsonReturn ==
    /\ jsonCall.pc = "done"
    /\ jsonCall' = [IdleJson EXCEPT !.calls = jsonCall.calls,
                      !.records = jsonCall.records]
    /\ UNCHANGED <<cacheVars, brazeStringStore, parse, env, hook, srv>>

---------------------------------------------------------------------------
(* main: the server and its shutdown *)

\* context.WithTimeout(context.Background(), 5*time.Second)
ShutdownTimeout == 5

\* http.ErrServerClosed
ErrServerClosed == "http: Server closed"

\* The process runs: main has not returned and no goroutine has panicked.
Alive == srv.main # "exited" /\ srv.serve # "panicked"

\* A request is being served.
Active == \E t \in Tasks : tasks[t].pc # "idle"

\* main starts the goroutine that calls ListenAndServeTLS and waits for a
\* signal.
ServerStart ==
    /\ srv.main = "start"
    /\ srv' = [srv EXCEPT !.main = "waiting", !.serve = "starting"]
    /\ UNCHANGED <<cacheVars, brazeStringStore, parse, env, hook, jsonCall>>

\* ListenAndServeTLS listens and serves, or fails at once: the address is
\* taken, or the certificate cannot be loaded.
ServeListen ==
    /\ Alive
    /\ srv.serve = "starting"
    /\ \/ srv' = [srv EXCEPT !.serve = "listening"]
       \/ srv' = [srv EXCEPT !.serve = "returned", !.err = "listen failed"]
    /\ UNCHANGED <<cacheVars, brazeStringStore, parse, env, hook, jsonCall>>

\* SIGINT or SIGTERM arrives; main calls srv.Shutdown with its deadline:
\* the listeners close and no new request is taken.
Signal ==
    /\ Alive
    /\ srv.main = "waiting"
    /\ srv' = [srv EXCEPT !.main = "shutdown", !.deadline = now + ShutdownTimeout]
    /\ UNCHANGED <<cacheVars, brazeStringStore, parse, env, hook, jsonCall>>

\* Once Shutdown has been called, ListenAndServeTLS returns
\* ErrServerClosed, whether it was serving or about to listen.
ServeReturn ==
    /\ Alive
    /\ srv.main = "shutdown"
    /\ srv.serve \in {"starting", "listening"}
    /\ srv' = [srv EXCEPT !.serve = "returned", !.err = ErrServerClosed]
    /\ UNCHANGED <<cacheVars, brazeStringStore, parse, env, hook, jsonCall>>

\* if err != nil: logging.Fatal().LogErr writes the record ...
ServeFatal ==
    /\ Alive
    /\ srv.serve = "returned"
    /\ srv.err # ""
    /\ srv' = [srv EXCEPT !.serve = "fatal", !.records = @ + 1]
    /\ UNCHANGED <<cacheVars, brazeStringStore, parse, env, hook, jsonCall>>

\* ... and panics, which ends the process.
ServePanic ==
    /\ Alive
    /\ srv.serve = "fatal"
    /\ srv' = [srv EXCEPT !.serve = "panicked"]
    /\ UNCHANGED <<cacheVars, brazeStringStore, parse, env, hook, jsonCall>>

\* Shutdown returns when no request is being served or when the deadline
\* has passed; main returns and the process ends.
ShutdownReturn ==
    /\ Alive
    /\ srv.main = "shutdown"
    /\ ~Active \/ now >= srv.deadline
    /\ srv' = [srv EXCEPT !.main = "exited"]
    /\ UNCHANGED <<cacheVars, brazeStringStore, parse, env, hook, jsonCall>>

---------------------------------------------------------------------------
(* Specifications *)

FetchStep(t) ==
    \/ \E r \in Requests : started < MaxFetches /\ FetchBegin(t, r)
    \/ FetchTouch(t)
    \/ FetchHitStore(t)
    \/ FetchGenerate(t)
    \/ FetchMissStore(t)
    \/ FetchMissGet(t)
    \/ FetchReturn(t)

EvictStep ==
    \/ EvictStart
    \/ \E k \in DOMAIN cache : EvictLoad(k)
    \/ EvictCheck
    \/ EvictDelete
    \/ EvictReturn

Next ==
    \/ Tick
    \/ \E t \in Tasks : FetchStep(t)
    \/ EvictStep

\* Goroutines interleave freely and every step may take any time.
Spec == Init /\ [][Next]_vars

---------------------------------------------------------------------------
(* Runs with a punctual sweeper: requests take no time, and the eviction  *)
(* loop wakes exactly when its Sleep ends and sweeps in no time.           *)

RepeatRequests == {GetEn, PostEn}

PunctualTick ==
    /\ ev.pc = "sleep"
    /\ now < ev.wakeAt
    /\ \A t \in Tasks : tasks[t].pc = "idle"
    /\ \E t \in PunctualInstants :
         /\ t > now
         /\ \A u \in PunctualInstants : u > now => t <= u
         /\ now' = t
    /\ UNCHANGED <<cache, tasks, ev, started, lastTouch, lastStore, due, brazeStringStore, parse, restVars>>

PunctualFetchStep(t) ==
    \/ \E r \in RepeatRequests : started < MaxRepeats /\ FetchBegin(t, r)
    \/ FetchTouch(t)
    \/ FetchHitStore(t)
    \/ FetchGenerate(t)
    \/ FetchMissStore(t)
    \/ FetchMissGet(t)
    \/ FetchReturn(t)

PunctualNext ==
    \/ PunctualTick
    \/ \E t \in Tasks : PunctualFetchStep(t)
    \/ EvictStep

SpecPunctual == Init /\ [][PunctualNext]_vars

\* The same runs with the eviction goroutine scheduled whenever it can
\* take a step.
SpecLoop == Init /\ [][PunctualNext]_vars /\ WF_vars(EvictStep)

---------------------------------------------------------------------------
(* Runs that only compute keys: requests with many parameter mappings,    *)
(* the clock and the sweeper standing still.                               *)

KeyFetchStep(t) ==
    \/ \E r \in KeyRequests : started < MaxKeyFetches /\ FetchBegin(t, r)
    \/ FetchTouch(t)
    \/ FetchHitStore(t)
    \/ FetchGenerate(t)
    \/ FetchMissStore(t)
    \/ FetchMissGet(t)
    \/ FetchReturn(t)

KeysNext == \E t \in Tasks : KeyFetchStep(t)

SpecKeys == Init /\ [][KeysNext]_vars

---------------------------------------------------------------------------
(* Runs over the forms FlattenPostForm accepts and refuses, the clock and *)
(* the sweeper standing still.                                             *)

MaxFlatFetches == 3

FlatFetchStep(t) ==
    \/ \E r \in FlattenRequests : started < MaxFlatFetches /\ FetchBegin(t, r)
    \/ FetchTouch(t)
    \/ FetchHitStore(t)
    \/ FetchGenerate(t)
    \/ FetchMissStore(t)
    \/ FetchMissGet(t)
    \/ FetchReturn(t)

FlatNext == \E t \in Tasks : FlatFetchStep(t)

SpecFlatten == Init /\ [][FlatNext]_vars

---------------------------------------------------------------------------
(* Runs of the routes that check a secret: /strings/braze behind          *)
(* ValidateAPIKey and the webhook of TaskCompletedHandler, in a process    *)
(* started with the secrets set or unset.                                  *)

\* The number of requests to /strings/braze in one run.
MaxRouted == 2

RoutedFetchStep(t) ==
    \/ \E r \in RoutedRequests : started < MaxRouted /\ ValidateAPIKey(t, r)
    \/ FetchTouch(t)
    \/ FetchHitStore(t)
    \/ FetchGenerate(t)
    \/ FetchMissStore(t)
    \/ FetchMissGet(t)
    \/ FetchReturn(t)

HookStep ==
    \/ \E r \in HookRequests : HookBegin(r)
    \/ HookRead
    \/ HookCall
    \/ HookReturn

RoutesNext ==
    \/ \E t \in Tasks : RoutedFetchStep(t)
    \/ HookStep

InitRoutes == \E e \in Environments : InitWith(e)

SpecRoutes == InitRoutes /\ [][RoutesNext]_vars

---------------------------------------------------------------------------
(* Runs of main: the server starts, serves requests while the clock       *)
(* advances, and is told to stop.                                          *)

\* The number of requests served in one run of main.
MaxServed == 2

ServerStep ==
    \/ ServerStart
    \/ ServeListen
    \/ Signal
    \/ ServeReturn
    \/ ServeFatal
    \/ ServePanic
    \/ ShutdownReturn

ServedFetchStep(t) ==
    \/ \E r \in RepeatRequests :
         started < MaxServed /\ srv.serve = "listening" /\ FetchBegin(t, r)
    \/ FetchTouch(t)
    \/ FetchHitStore(t)
    \/ FetchGenerate(t)
    \/ FetchMissStore(t)
    \/ FetchMissGet(t)
    \/ FetchReturn(t)

ServerNext ==
    \/ ServerStep
    \/ Alive /\ Tick
    \/ Alive /\ \E t \in Tasks : ServedFetchStep(t)

SpecServer == Init /\ [][ServerNext]_vars

---------------------------------------------------------------------------
(* Runs of logging.Json alone *)

JsonStep ==
    \/ \E v \in JsonValues : JsonBegin(v)
    \/ JsonEncode
    \/ JsonTrim
    \/ JsonLogError
    \/ JsonReturn

SpecJson == Init /\ [][JsonStep]_vars

---------------------------------------------------------------------------
(* Runs of the template parser alone *)

\* What Braze answers: one of the template bodies, or nothing.
Upstream == {[ok |-> TRUE, body |-> b] : b \in Templates}
                \cup {[ok |-> FALSE, body |-> ""]}

ParseStep ==
    \/ \E id \in TemplateIDs, up \in Upstream : ParseBegin(id, up)
    \/ ParseExtract
    \/ ParseStore
    \/ ParseRespond
    \/ ParseReturn

SpecExtract == Init /\ [][ParseStep]_vars

---------------------------------------------------------------------------
(* Properties *)

AllRequests == Requests \cup RepeatRequests \cup KeyRequests

\* A request goroutine is between its first Get and its return.
InFlight(t) == tasks[t].pc \notin {"idle", "done"}

\* The step of t is the first Get of Fetch, and it finds the key.
Hit(t) == (\E r \in AllRequests : FetchBegin(t, r)) /\ tasks'[t].pc = "touch"

\* C1: Evict removes an entry only if the value stored under the key at
\* the moment of removal is expired; an entry a hit has stored again with
\* a future evictionTime is not deleted by a sweep that loaded the older
\* value.
EvictRemovesOnlyExpired ==
    [][EvictDelete =>
         (ev.key \in DOMAIN cache => IsExpired(cache[ev.key], now))]_vars

\* C2: whenever no Store for a key is pending, the evictionTime of its
\* stored entry is the time of the latest Touch made for the key plus TTL.
ExpiresAtIsLastTouchPlusTTL ==
    \A k \in DOMAIN cache :
        (\A t \in Tasks :
            ~(tasks[t].pc \in {"hitstore", "missstore"} /\ Key(t) = k))
        => cache[k].evictionTime = lastTouch[k] + TTL

\* C3: the sweep leaves in place every entry it loads at a time no later
\* than TTL after the entry's latest Touch, however long ago the entry was
\* created.
TouchExtendsLife ==
    [][EvictCheck /\ now <= ev.value.touched + TTL
         => ev'.pc = "range" /\ cache' = cache]_vars

\* C3 witness: a sweep begun more than TTL after the entry was created has
\* checked the entry, which a hit touched within TTL of its creation, and
\* has left it stored.
TouchExtendsLifeWitness ==
    /\ ev.pc = "range"
    /\ ev.key \in DOMAIN cache
    /\ cache[ev.key] = ev.value
    /\ ev.value.touched > ev.value.born
    /\ ev.value.touched < ev.value.born + TTL
    /\ ev.startedAt > ev.value.born + TTL
    /\ now <= ev.value.touched + TTL

\* C4: when a sweep has returned, every key whose entry had expired before
\* the sweep began, and that no Store has written since, is absent: Get
\* reports it not found.
ExpiredEntryIsRemoved ==
    ev.pc = "sleep" => \A k \in due : ~Get(cache, k).ok

\* C4 witness: a sweep has returned after removing an entry that had
\* expired, and the key has not been stored again.
ExpiredEntryIsRemovedWitness ==
    /\ ev.pc = "sleep"
    /\ \E k \in due : k \notin DOMAIN lastStore /\ ~Get(cache, k).ok

\* C5: from a Store for a key until the next Evict removal or Store for
\* that key, Get finds the key and returns the data given to that Store.
StoreThenGet ==
    \A k \in DOMAIN lastStore :
        /\ Get(cache, k).ok
        /\ GetData(Get(cache, k).value) = lastStore[k]

\* C5 witness: a miss has stored its payload and the Get that follows the
\* Store has found it.
StoreThenGetWitness ==
    \E t \in Tasks :
        /\ tasks[t].pc = "done"
        /\ tasks[t].path = "miss"
        /\ tasks[t].ok
        /\ \E k \in DOMAIN lastStore : tasks[t].resp.body = <<lastStore[k]>>

\* The staleness bound: a small multiple of the TTL.
StaleBound == 2 * TTL

\* C6, as claimed: every payload served on a hit was generated at most
\* StaleBound before it is served.
HitPayloadIsRecent ==
    [][\A t \in Tasks : Hit(t) => now - tasks'[t].value.born <= StaleBound]_vars

\* C6, amended: with a punctual sweeper, every entry served on a hit was
\* touched (created or refreshed) at most StaleBound before it is served.
HitEntryIsRecentlyTouched ==
    [][\A t \in Tasks : Hit(t) => now - tasks'[t].value.touched <= StaleBound]_vars

\* C6 witness: a hit is being served from an entry touched exactly
\* StaleBound ago.
HitEntryIsRecentlyTouchedWitness ==
    \E t \in Tasks :
        /\ tasks[t].pc = "touch"
        /\ now - tasks[t].value.touched = StaleBound

\* C7: two requests to the route whose parameters differ never have the
\* same cache key.
DifferentParametersDifferentKeys ==
    \A t1, t2 \in Tasks :
        /\ InFlight(t1)
        /\ InFlight(t2)
        /\ tasks[t1].req.method \in RouteMethods
        /\ tasks[t2].req.method \in RouteMethods
        /\ ParseForm(tasks[t1].req).Form # ParseForm(tasks[t2].req).Form
        => Key(t1) # Key(t2)

\* C8: the response to a hit carries the header X-From-Cache: 1 together
\* with a body; the response to a miss does not carry the header.
HitResponseIsMarked ==
    \A t \in Tasks :
        tasks[t].pc = "done" =>
            /\ tasks[t].path = "hit" =>
                 /\ <<"X-From-Cache", "1">> \in tasks[t].resp.sent
                 /\ Len(tasks[t].resp.body) = 1
            /\ tasks[t].path = "miss" =>
                 <<"X-From-Cache", "1">> \notin tasks[t].resp.sent

\* C9: a hit takes its bytes from the stored entry, keeps them through
\* Touch, writes exactly them to the response, and its Store changes
\* neither the data under its key nor any other entry.
HitReturnsStoredBytes ==
    [][\A t \in Tasks :
         /\ Hit(t) =>
              tasks'[t].value.data = cache[KeyOf(tasks'[t].req)].data
         /\ FetchTouch(t) =>
              /\ tasks'[t].value.data = tasks[t].value.data
              /\ tasks'[t].value.born = tasks[t].value.born
         /\ FetchHitStore(t) =>
              /\ tasks'[t].resp.body = <<tasks[t].value.data>>
              /\ cache'[Key(t)].data = tasks[t].value.data
              /\ Key(t) \in DOMAIN cache =>
                   cache'[Key(t)].data = cache[Key(t)].data
              /\ \A k \in DOMAIN cache \ {Key(t)} :
                   k \in DOMAIN cache' /\ cache'[k] = cache[k]]_vars

\* C9 witness: a hit has answered with the bytes of an entry that it has
\* stored again with the evictionTime of a later Touch.
HitReturnsStoredBytesWitness ==
    \E t \in Tasks :
        /\ tasks[t].pc = "done"
        /\ tasks[t].path = "hit"
        /\ \E k \in DOMAIN cache :
             /\ cache[k].touched > cache[k].born
             /\ cache[k].data # NoData
             /\ tasks[t].resp.body = <<cache[k].data>>

\* C10: neither Get nor Touch on the value Get returned changes the cache.
GetAndTouchLeaveCache ==
    [][\A t \in Tasks :
         ((\E r \in AllRequests : FetchBegin(t, r)) \/ FetchTouch(t))
         => cache' = cache]_vars

\* C10 witness: a hit has touched its copy and not stored it yet: the
\* copy's evictionTime is later than that of the stored entry.
GetAndTouchLeaveCacheWitness ==
    \E t \in Tasks :
        /\ tasks[t].pc = "hitstore"
        /\ Key(t) \in DOMAIN cache
        /\ tasks[t].value.evictionTime > cache[Key(t)].evictionTime

\* No request is inside Fetch.
Quiescent == \A t \in Tasks : tasks[t].pc = "idle"

EvictionLoopRuns ==
    /\ [](ENABLED EvictStep \/ (ev.pc = "sleep" /\ now < ev.wakeAt))
    /\ [][EvictReturn => ev'.pc = "sleep" /\ ev'.wakeAt = now + SleepInterval]_vars
    /\ ((ev.pc = "sleep" /\ now >= ev.wakeAt) ~> ev.pc = "range")
    /\ (ev.pc # "sleep" ~> ev.pc = "sleep")

\* C12 witness: a later sweep is in progress, begun one Sleep after an
\* earlier one returned.
EvictionLoopRunsWitness ==
    /\ ev.pc = "range"
    /\ ev.startedAt >= SleepInterval
    /\ ev.startedAt = ev.wakeAt

\* The step is a Store made by request t.
Stores(t) == FetchHitStore(t) \/ FetchMissStore(t)

\* C13: what Get returns for a key is the value, data and evictionTime
\* together, given to the latest Store for the key, or not-found after the
\* latest Delete: a Store makes Get return exactly its value, a Delete
\* makes Get return not-found, neither changes what Get returns for any
\* other key, and no other step changes what Get returns.
StoresAreAtomic ==
    [][/\ \A t \in Tasks : Stores(t) =>
            /\ Get(cache', Key(t)).ok
            /\ Get(cache', Key(t)).value = tasks[t].value
            /\ \A k \in (DOMAIN cache \cup DOMAIN cache') \ {Key(t)} :
                 /\ Get(cache', k).ok = Get(cache, k).ok
                 /\ Get(cache', k).value = Get(cache, k).value
       /\ EvictDelete =>
            /\ ~Get(cache', ev.key).ok
            /\ \A k \in (DOMAIN cache \cup DOMAIN cache') \ {ev.key} :
                 /\ Get(cache', k).ok = Get(cache, k).ok
                 /\ Get(cache', k).value = Get(cache, k).value
       /\ (~EvictDelete /\ \A t \in Tasks : ~Stores(t)) => cache' = cache]_vars

\* C13 witness: two requests have stored different values under the same
\* key, one after the other, and the entry is the value of one of them.
StoresAreAtomicWitness ==
    \E t1, t2 \in Tasks :
        /\ tasks[t1].pc = "missget"
        /\ tasks[t2].pc = "missget"
        /\ Key(t1) = Key(t2)
        /\ tasks[t1].value # tasks[t2].value
        /\ Get(cache, Key(t1)).ok
        /\ Get(cache, Key(t1)).value = tasks[t2].value

\* C15: two mappings that differ, in a value or in the keys they hold,
\* never get the same cache key.
KeysAreInjective ==
    \A t1, t2 \in Tasks :
        InFlight(t1) /\ InFlight(t2)
        /\ FormDataOf(tasks[t1].req) # FormDataOf(tasks[t2].req)
        => getKey(FormDataOf(tasks[t1].req)) # getKey(FormDataOf(tasks[t2].req))

\* C15 witness: two requests are in progress whose mappings differ only
\* in where the quotes are: one value holding quotes and a comma against
\* two plain values.
KeysAreInjectiveWitness ==
    \E t1, t2 \in Tasks :
        /\ InFlight(t1)
        /\ InFlight(t2)
        /\ tasks[t1].req = Post(<<"en\",\"name\":\"x">>, <<>>)
        /\ tasks[t2].req = Post(<<"en">>, <<"x">>)
        /\ Key(t1) # Key(t2)

\* getBrazeTemplateInfo has extracted the strings of the template.
Extracted == parse.pc \in {"store", "respond"}

Contains(s, part) == \E i \in 1..Len(s) : HasAt(s, i, part)

RoundTrip ==
    \A o \in OnePlaceholder :
        Extracted /\ parse.templateBody = o.text =>
            /\ ~parse.err
            /\ parse.extractedStrings = [k \in {o.key} |-> o.default]

\* The value v is the default d with its bracket pairs rewritten: same
\* length, every character but a bracket kept, a bracket kept or turned
\* into the brace of the same side, a brace that d does not have standing
\* where d has two brackets in a row, and no bracket pair left.
Unescaped(d, v) ==
    /\ Len(v) = Len(d)
    /\ ~Contains(v, "[[")
    /\ ~Contains(v, "]]")
    /\ \A j \in 1..Len(d) :
         /\ Ch(d, j) \notin {"[", "]"} => Ch(v, j) = Ch(d, j)
         /\ Ch(d, j) = "[" => Ch(v, j) \in {"[", "{"}
         /\ Ch(d, j) = "]" => Ch(v, j) \in {"]", "}"}
         /\ Ch(v, j) # Ch(d, j) =>
              Ch(d, j - 1) = Ch(d, j) \/ Ch(d, j + 1) = Ch(d, j)

\* C19: every extracted value is the default of a match for its key with
\* each [[ turned into {{ and each ]] into }}; the key is the text of the
\* template, brackets and all.
BracketsAreUnescaped ==
    Extracted =>
        \A k \in DOMAIN parse.extractedStrings :
            /\ Contains(parse.templateBody, "strings." \o k)
            /\ \E i \in 1..Len(parse.matches) :
                 /\ parse.matches[i][2] = k
                 /\ Unescaped(parse.matches[i][3], parse.extractedStrings[k])

\* C19 witness: a default with several bracket pairs, under a key that
\* holds brackets itself, has been extracted.
BracketsAreUnescapedWitness ==
    /\ Extracted
    /\ parse.templateBody = WithBrackets
    /\ DOMAIN parse.extractedStrings = {"a[[0]]"}
    /\ parse.extractedStrings["a[[0]]"] = "{{a}}}}{{[b"

\* The index of the last match whose key is k.
LastMatch(matches, k) ==
    CHOOSE i \in 1..Len(matches) :
        /\ matches[i][2] = k
        /\ \A j \in (i + 1)..Len(matches) : matches[j][2] # k

\* C20: the mapping holds the keys of the matches, each with the default,
\* unescaped, of the last match that has the key.
LastOccurrenceWins ==
    Extracted =>
        /\ DOMAIN parse.extractedStrings
             = {parse.matches[i][2] : i \in 1..Len(parse.matches)}
        /\ \A k \in DOMAIN parse.extractedStrings :
             parse.extractedStrings[k]
               = Unescape(parse.matches[LastMatch(parse.matches, k)][3])

\* C20 witness: a template with one key in its first and third
\* placeholders has been extracted, and the key has the third default.
LastOccurrenceWinsWitness ==
    /\ Extracted
    /\ parse.templateBody = Repeated
    /\ Len(parse.matches) = 3
    /\ parse.matches[1][2] = parse.matches[3][2]
    /\ parse.extractedStrings[parse.matches[1][2]] = "{{last}}"

\* The keys of a form, each with the one value it carries.
SingleValues(form) ==
    [n \in {m \in Names : form[m] # <<>>} |-> form[n][1]]

\* C23: Fetch answers with an internal server error exactly when some key
\* of the form does not carry one value, and otherwise works on the
\* mapping of the form's keys, each to its single value.
FlattenIsExact ==
    \A t \in Tasks :
        tasks[t].pc # "idle" /\ tasks[t].req # NoRequest
        /\ ~ParseForm(tasks[t].req).err =>
            LET form == ParseForm(tasks[t].req).PostForm
            IN  IF \E n \in Names : Len(form[n]) > 1
                THEN /\ tasks[t].path = "error"
                     /\ tasks[t].resp.status = StatusInternalServerError
                ELSE /\ tasks[t].path # "error"
                     /\ tasks[t].formData = SingleValues(form)

\* C21: extraction from a template in which the expression matches
\* nowhere ends without an error, with a mapping that is empty and not
\* nil, and getBrazeTemplateInfo goes on to store it.
NoMatchesIsEmptyNotError ==
    [][parse.pc = "extract" /\ FindAllStringSubmatch(parse.templateBody) = <<>> =>
         /\ parse'.pc = "store"
         /\ ~parse'.err
         /\ parse'.extractedStrings = <<>>
         /\ ~extractBrazeStrings(parse.templateBody).isNil]_vars

\* C21 witness: the template of plain text has been extracted.
NoMatchesIsEmptyNotErrorWitness ==
    /\ parse.pc = "store"
    /\ parse.templateBody = NoPlaceholder
    /\ parse.matches = <<>>
    /\ parse.extractedStrings = <<>>

\* The webhook request in the handler carries the configured secret.
HookSecretOK == HeaderGet(hook.req.secret) = env.lokaliseWebhookSecret

\* C24: TaskCompletedHandler reads the body and calls
\* createStringsPullRequest only for a request whose x-secret header, as
\* Header.Get gives it (the first value, the empty string when absent),
\* is the configured secret; every other request gets 403 Forbidden
\* before its body is read and makes no call.
WebhookSecretGuardsCall ==
    /\ [](hook.pc \in {"read", "call"} \/ hook.bodyRead => HookSecretOK)
    /\ [](hook.pc = "done" /\ ~HookSecretOK =>
            /\ hook.resp.status = StatusForbidden
            /\ ~hook.bodyRead)
    /\ [][hook'.calls # hook.calls =>
            /\ HeaderGet(hook.req.secret) = env.lokaliseWebhookSecret
            /\ hook.pc = "call"
            /\ hook'.calls = Append(hook.calls, hook.req.body.projectID)]_vars

\* C24 witness: a request with the wrong secret has been refused with 403
\* after a request with the right one led to a call, and no second call
\* was made.
WebhookSecretGuardsCallWitness ==
    /\ hook.pc = "done"
    /\ env = Configured
    /\ hook.req.secret = <<"wrong">>
    /\ hook.req.body.ok
    /\ hook.resp.status = StatusForbidden
    /\ hook.calls = <<"p1">>

\* The request of task t carries the configured API key.
TokenOK(t) == HeaderGet(tasks[t].req.token) = env.authenticationSecret

\* C25: a request to /strings/braze whose X-Secret-Token, as Header.Get
\* gives it, differs from the configured secret gets 404 and never enters
\* Fetch: the step that takes it leaves the cache and its history
\* unchanged, and the request is answered at once.
WrongTokenNeverReachesCache ==
    /\ [](\A t \in Tasks : InFlight(t) => TokenOK(t))
    /\ [][\A t \in Tasks :
            tasks[t].pc = "idle" /\ tasks'[t].pc # "idle" /\ ~TokenOK(t)' =>
                /\ tasks'[t].pc = "done"
                /\ tasks'[t].resp.status = StatusNotFound
                /\ tasks'[t].resp.body = <<"404 page not found">>
                /\ UNCHANGED <<cache, lastTouch, lastStore>>]_vars

\* C25 witness: with an entry in the cache, a request for the same
\* parameters and a wrong token has been answered 404.
WrongTokenNeverReachesCacheWitness ==
    \E t \in Tasks :
        /\ tasks[t].pc = "done"
        /\ tasks[t].req = WithToken(PostEn, <<"wrong", "token">>)
        /\ tasks[t].resp.status = StatusNotFound
        /\ KeyOf(PostEn) \in DOMAIN cache
        /\ env = Configured

\* C27: a request whose key has an entry that is expired and not yet swept
\* finds the entry (Get reports it), takes the hit path with the stored
\* bytes, touches its copy so that it expires TTL from now, stores it
\* under the key and answers with the old bytes.
ExpiredEntryIsServed ==
    [][\A t \in Tasks :
         /\ \A r \in RepeatRequests :
              FetchBegin(t, r) /\ KeyOf(r) \in DOMAIN cache
              /\ now > cache[KeyOf(r)].evictionTime =>
                  /\ Get(cache, KeyOf(r)).ok
                  /\ tasks'[t].pc = "touch"
                  /\ tasks'[t].ok
                  /\ tasks'[t].value = cache[KeyOf(r)]
         /\ FetchTouch(t) => tasks'[t].value.evictionTime = now + TTL
         /\ FetchHitStore(t) =>
              /\ cache'[Key(t)] = tasks[t].value
              /\ tasks'[t].resp.body = <<tasks[t].value.data>>]_vars

\* C27 witness: a request has just got from the cache an entry whose
\* evictionTime had passed (requests take no time in these runs, so the
\* clock still shows the time of Get).
ExpiredEntryIsServedWitness ==
    \E t \in Tasks :
        /\ tasks[t].pc = "touch"
        /\ tasks[t].ok
        /\ now > tasks[t].value.evictionTime
        /\ Key(t) \in DOMAIN cache
        /\ cache[Key(t)] = tasks[t].value

\* The messages of the internal-server-error responses of Fetch.
FetchErrors ==
    {"failed to parse form", "failed to flatten form data",
     "failed to get cache key", "failed to parse template",
     "failed to execute template", "failed to marshal JSON"}

\* C28: a request that Fetch answers with an internal server error is
\* answered in the step that takes it, with the error message alone in
\* the body; that step leaves the cache as it was, and the request takes
\* no further step but its return, so it stores nothing.
FailedRequestLeavesCache ==
    /\ [](\A t \in Tasks :
            tasks[t].resp.status = StatusInternalServerError \/ tasks[t].path = "error" =>
                /\ tasks[t].pc = "done"
                /\ tasks[t].path = "error"
                /\ tasks[t].resp.status = StatusInternalServerError
                /\ Len(tasks[t].resp.body) = 1
                /\ tasks[t].resp.body[1] \in FetchErrors)
    /\ [][\A t \in Tasks :
            \/ tasks[t].pc = "idle" /\ tasks'[t].path = "error"
            \/ tasks[t].path = "error" /\ tasks'[t].pc = "idle"
            => cache' = cache /\ lastStore' = lastStore]_vars

\* C28 witness: with an entry in the cache, a form that cannot be parsed
\* and a form with two values for a key have both been answered with an
\* internal server error.
FailedRequestLeavesCacheWitness ==
    /\ cache # <<>>
    /\ \E t1, t2 \in Tasks :
         /\ tasks[t1].path = "error"
         /\ tasks[t1].resp.body = <<"failed to parse form">>
         /\ tasks[t2].path = "error"
         /\ tasks[t2].resp.body = <<"failed to flatten form data">>

\* The parameter mappings of the requests that reach the cache.
Mappings ==
    {FormDataOf(r) : r \in {q \in Requests \cup RepeatRequests :
        ~ParseForm(q).err /\ ~FlattenPostForm(ParseForm(q).PostForm).err}}

\* For every key, the payloads the miss path generates from the mappings
\* whose serialization is the key.
PayloadsOf ==
    [k \in {getKey(m) : m \in Mappings} |->
        {RenderPayload(m) : m \in {n \in Mappings : getKey(n) = k}}]

\* C29: the entry under a key holds the payload the miss path generates
\* from the mapping whose serialization is the key, and no other mapping
\* has that key; what a request stores under its key and what it writes
\* to its response is the payload generated from its own mapping.
PayloadBelongsToKey ==
    /\ [](\A k \in DOMAIN cache :
            k \in DOMAIN PayloadsOf /\ PayloadsOf[k] = {cache[k].data})
    /\ [][\A t \in Tasks :
            /\ FetchHitStore(t) \/ FetchMissStore(t) =>
                 /\ Key(t) = getKey(tasks[t].formData)
                 /\ cache'[Key(t)].data = RenderPayload(tasks[t].formData)
            /\ FetchHitStore(t) \/ FetchMissGet(t) =>
                 tasks'[t].resp.body = <<RenderPayload(tasks[t].formData)>>]_vars

\* C29 witness: a hit is about to store the payload of its mapping under
\* its key while the sweep is about to delete the entry of that key.
PayloadBelongsToKeyWitness ==
    \E t \in Tasks :
        /\ tasks[t].pc = "hitstore"
        /\ ev.pc = "expired"
        /\ ev.key = Key(t)
        /\ Key(t) \in DOMAIN cache
        /\ tasks[t].value.data = RenderPayload(tasks[t].formData)
        /\ tasks[t].value.data # NoData

RECURSIVE Serializable(_)
\* The value holds no cycle and nothing encoding/json has no encoding
\* for: no infinite or NaN float, no function, channel or complex number,
\* no map with bool keys.
Serializable(v) ==
    CASE v.kind \in {"nil", "int", "bool", "string"} -> TRUE
      [] v.kind = "float" -> v.text \notin {"+Inf", "-Inf", "NaN"}
      [] v.kind = "slice" -> \A i \in 1..Len(v.elems) : Serializable(v.elems[i])
      [] v.kind = "map" ->
           /\ v.type # "map[bool]int"
           /\ \A k \in DOMAIN v.entries : Serializable(v.entries[k])
      [] v.kind = "struct" ->
           \A i \in 1..Len(v.fields) : Serializable(v.fields[i].value)
      [] v.kind \in {"unsupported", "cycle"} -> FALSE

\* C26, as claimed: no call of Json ends the process.
JsonNeverPanics == jsonCall.pc # "crashed"

\* C26, amended: Json ends the process, by stack overflow, only for a
\* value that holds itself.  Every call that returns gives one line: for
\* a serializable value a text without line break that is no error text,
\* for any other value the text <error: json: unsupported ...> after one
\* record of the error logger, and for the values of TestJson the results
\* the test expects.
JsonReturnsOneLine ==
    /\ jsonCall.pc = "crashed" => jsonCall.j.kind = "cycle"
    /\ jsonCall.pc = "done" =>
         /\ ~Contains(jsonCall.result, "\n")
         /\ Serializable(jsonCall.j) =>
              /\ ~HasAt(jsonCall.result, 1, "<error: ")
              /\ jsonCall.err = ""
         /\ ~Serializable(jsonCall.j) =>
              /\ HasAt(jsonCall.result, 1, "<error: json: unsupported ")
              /\ HasAt(jsonCall.result, Len(jsonCall.result), ">")
              /\ jsonCall.records >= 1
         /\ \A i \in 1..Len(TestJson) :
              TestJson[i].value = jsonCall.j =>
                  jsonCall.result = TestJson[i].expectedResult

\* C26 witness: after a call that failed and was logged, Json has
\* returned the encoding of the nested map of the test.
JsonReturnsOneLineWitness ==
    /\ jsonCall.pc = "done"
    /\ jsonCall.records = 1
    /\ jsonCall.calls = 2
    /\ jsonCall.result = "{\"a\":\"one\",\"b\":2,\"c\":{\"d\":null}}"

\* C30: after the signal main calls Shutdown with a deadline of five
\* seconds, and the goroutine that serves never enters the fatal path
\* because of the shutdown.
ShutdownIsGraceful ==
    /\ srv.main = "shutdown" => srv.deadline <= now + ShutdownTimeout
    /\ srv.err = ErrServerClosed => srv.serve \notin {"fatal", "panicked"}

====
